---- MODULE Spec2Model ----
(***************************************************************************)
(* Model of wrapper.h of collectd-rust-plugin: the conditional-inclusion   *)
(* chain                                                                   *)
(*     #ifdef COLLECTD_PATH ... #elif COLLECTD_54 ... #else ... #endif     *)
(* as the C preprocessor processes it inside one translation unit.         *)
(*                                                                         *)
(* The state is the preprocessor's macro table (restricted to the two      *)
(* flags the header reads), the include directives the translation unit    *)
(* has accumulated, the diagnostics issued, and a log with one record per  *)
(* processing of wrapper.h.  The translation unit may #define / #undef the *)
(* flags between inclusions and may include wrapper.h more than once (the  *)
(* header has no include guard).                                           *)
(***************************************************************************)
EXTENDS Integers, Sequences, FiniteSets, TLC

\* ------------------------------------------------------------------ bounds
MaxIncludes == 2      \* inclusions of wrapper.h in one translation unit
MaxEdits    == 3      \* #define / #undef directives between inclusions

\* ------------------------------------------------------------ macro table
Flags == {"COLLECTD_PATH", "COLLECTD_54"}

\* Replacement lists a flag can be defined with, as preprocessing tokens:
\*   <<>>            #define F              (defined empty)
\*   <<"0">>         -DF=0
\*   <<"1">>         -DF   (the command line form defines F as 1)
\*   <<"/", "opt">>  -DF=/opt               (a path)
Bodies == { <<>>, <<"0">>, <<"1">>, <<"/", "opt">> }

Undefined == [defined |-> FALSE, body |-> <<>>]
MacroStates == {Undefined} \cup {[defined |-> TRUE, body |-> b] : b \in Bodies}

\* ------------------------------------------------- #if expression evaluator
IntLits == {"0", "1"}
IntVal(tok) == IF tok = "1" THEN 1 ELSE 0
IsIdent(tok) == tok \notin IntLits /\ tok # "/"

\* line 5: the tokens of the controlling expression `COLLECTD_54` after macro
\* replacement: the replacement list when the macro is defined, the
\* identifier itself otherwise.
ExpandMacro(m, name) == IF m[name].defined THEN m[name].body ELSE <<name>>

\* After macro replacement every remaining identifier is replaced by 0.
ReplaceIdentsUndefAsOne(toks) ==
    [i \in DOMAIN toks |-> IF IsIdent(toks[i]) THEN "1" ELSE toks[i]]

ReplaceIdents(toks) ==
    [i \in DOMAIN toks |-> IF IsIdent(toks[i]) THEN "0" ELSE toks[i]]

\* Integer constant expressions of the form  INT ( "/" INT )* : anything else
\* (no tokens at all, a leading or trailing operator, two adjacent operands,
\* a division by zero) is a malformed controlling expression.
WellFormed(toks) ==
    /\ Len(toks) % 2 = 1
    /\ \A i \in DOMAIN toks :
          IF i % 2 = 1 THEN toks[i] \in IntLits ELSE toks[i] = "/"

RECURSIVE EvalDiv(_, _)
EvalDiv(toks, n) ==
    IF n = 1 THEN [ok |-> TRUE, val |-> IntVal(toks[1])]
    ELSE LET l == EvalDiv(toks, n - 2)
             r == IntVal(toks[n])
         IN  IF ~l.ok \/ r = 0 THEN [ok |-> FALSE, val |-> 0]
             ELSE [ok |-> TRUE, val |-> l.val \div r]

EvalExpr(toks) ==
    IF WellFormed(toks) THEN EvalDiv(toks, Len(toks))
    ELSE [ok |-> FALSE, val |-> 0]

\* --------------------------------------------------- the conditional chain
\* line 1: #ifdef COLLECTD_PATH  -- tests definedness, never the value
IfdefTakenByValue(m) ==
    LET e == EvalExpr(ReplaceIdents(ExpandMacro(m, "COLLECTD_PATH")))
    IN  e.ok /\ e.val # 0

IfdefTaken(m) == m["COLLECTD_PATH"].defined

\* line 5: #elif COLLECTD_54  -- the controlling expression is evaluated only
\* when no earlier group of the chain was taken
ElifEvaluatedAlways(m) == TRUE

ElifEvaluated(m) == ~IfdefTaken(m)

ElifValue(m) == EvalExpr(ReplaceIdents(ExpandMacro(m, "COLLECTD_54")))

ElifError(m) == ElifEvaluated(m) /\ ~ElifValue(m).ok

ElifTaken(m) == ElifEvaluated(m) /\ ElifValue(m).ok /\ ElifValue(m).val # 0

\* line 8: #else  -- taken when neither earlier group was
ElseTaken(m) == ~IfdefTaken(m) /\ ~ElifTaken(m)

\* ------------------------------------------------------------ the layouts
\* A header is its path, one element per component.
LocalHeaders ==                                       \* lines 2-4
    << <<"liboconfig", "oconfig.h">>,
       <<"daemon", "plugin.h">>,
       <<"daemon", "utils_cache.h">> >>

V54Headers ==                                         \* lines 6-7
    << <<"collectd", "core", "plugin.h">>,
       <<"collectd", "core", "utils_cache.h">> >>

PackagedHeaders ==                                    \* lines 9-11
    << <<"collectd", "liboconfig", "oconfig.h">>,
       <<"collectd", "core", "daemon", "plugin.h">>,
       <<"collectd", "core", "daemon", "utils_cache.h">> >>

Branches == {"local", "v54", "packaged"}

\* The groups of the chain the preprocessor processes.  A malformed #elif
\* expression is diagnosed as an error; with fatal errors the translation
\* stops at line 5 and processes no group, otherwise the preprocessor
\* recovers by treating the expression as false and goes on.
ActiveBranches(m, fatal) ==
    IF ElifError(m) /\ fatal THEN {}
    ELSE (IF IfdefTaken(m) THEN {"local"} ELSE {})
         \cup (IF ElifTaken(m) THEN {"v54"} ELSE {})
         \cup (IF ElseTaken(m) THEN {"packaged"} ELSE {})

\* The include directives of the active groups, in file order.
SelectedHeaders(m, fatal) ==
    LET a == ActiveBranches(m, fatal)
    IN  (IF "local" \in a THEN LocalHeaders ELSE <<>>)
        \o (IF "v54" \in a THEN V54Headers ELSE <<>>)
        \o (IF "packaged" \in a THEN PackagedHeaders ELSE <<>>)

\* wrapper.h has no #define and no #undef: the macro table after the header
\* is the macro table before it.
MacrosAfterUndef54(m) == [m EXCEPT !["COLLECTD_54"] = Undefined]

MacrosAfter(m) == m

\* ------------------------------------------------------------------ state
VARIABLES
    macros,       \* macro table: flag -> [defined, body]
    fatalErrors,  \* toolchain stops at the first error (-Wfatal-errors)
    status,       \* "preprocessing" | "aborted"
    tu,           \* include directives the translation unit has seen
    diagnostics,  \* number of errors issued while processing wrapper.h
    log,          \* one record per processing of wrapper.h
    edits         \* #define / #undef directives processed so far

vars == <<macros, fatalErrors, status, tu, diagnostics, log, edits>>

\* The translation unit starts with the flags as the command line set them.
Init ==
    /\ macros \in [Flags -> MacroStates]
    /\ fatalErrors \in BOOLEAN
    /\ status = "preprocessing"
    /\ tu = <<>>
    /\ diagnostics = 0
    /\ log = <<>>
    /\ edits = 0

\* #define name body, in the translation unit before an inclusion.
Define(name, body) ==
    /\ status = "preprocessing"
    /\ edits < MaxEdits
    /\ ~macros[name].defined
    /\ macros' = [macros EXCEPT ![name] = [defined |-> TRUE, body |-> body]]
    /\ edits' = edits + 1
    /\ UNCHANGED <<fatalErrors, status, tu, diagnostics, log>>

\* #undef name, in the translation unit before an inclusion.
Undef(name) ==
    /\ status = "preprocessing"
    /\ edits < MaxEdits
    /\ macros[name].defined
    /\ macros' = [macros EXCEPT ![name] = Undefined]
    /\ edits' = edits + 1
    /\ UNCHANGED <<fatalErrors, status, tu, diagnostics, log>>

\* #include "wrapper.h": lines 1-12 processed as a whole.
IncludeWrapper ==
    /\ status = "preprocessing"
    /\ Len(log) < MaxIncludes
    /\ LET err == ElifError(macros)
           hs  == SelectedHeaders(macros, fatalErrors)
       IN  /\ tu' = tu \o hs
           /\ diagnostics' = diagnostics + (IF err THEN 1 ELSE 0)
           /\ status' = IF err /\ fatalErrors THEN "aborted" ELSE status
           /\ macros' = MacrosAfter(macros)
           /\ log' = Append(log,
                  [before    |-> macros,
                   after     |-> MacrosAfter(macros),
                   active    |-> ActiveBranches(macros, fatalErrors),
                   headers   |-> hs,
                   evaluated |-> ElifEvaluated(macros),
                   error     |-> err])
    /\ UNCHANGED <<fatalErrors, edits>>

Next ==
    \/ \E name \in Flags, body \in Bodies : Define(name, body)
    \/ \E name \in Flags : Undef(name)
    \/ IncludeWrapper

Spec == Init /\ [][Next]_vars

\* ---------------------------------------------------------------- helpers
Records == {log[i] : i \in DOMAIN log}
PathDef(r)  == r.before["COLLECTD_PATH"].defined
C54(r)      == r.before["COLLECTD_54"]
HeaderSet(hs) == {hs[i] : i \in DOMAIN hs}
Basename(h) == h[Len(h)]
CountOf(hs, f) == Cardinality({i \in DOMAIN hs : Basename(hs[i]) = f})
Facilities == {"oconfig.h", "plugin.h", "utils_cache.h"}
LayoutsOf(hs) ==
    {b \in Branches :
        HeaderSet(hs) \cap HeaderSet(CASE b = "local" -> LocalHeaders
                                       [] b = "v54" -> V54Headers
                                       [] OTHER -> PackagedHeaders) # {}}

TypeOK ==
    /\ macros \in [Flags -> MacroStates]
    /\ status \in {"preprocessing", "aborted"}
    /\ diagnostics \in 0..MaxIncludes
    /\ Len(log) \in 0..MaxIncludes
    /\ edits \in 0..MaxEdits
    /\ \A r \in Records : r.headers = SelectedHeaders(r.before, fatalErrors)

\* ------------------------------------------------------------- properties

\* C1: for every combination of the two flags (not defined, or defined with
\* any value) exactly one of the three branches is active in a processing of
\* wrapper.h: never zero and never two.
C1_ExactlyOneBranch ==
    \A r \in Records : Cardinality(r.active) = 1

\* C2: whenever COLLECTD_PATH is defined, whatever the state of COLLECTD_54,
\* the selected header set is exactly the local layout and holds no header
\* of the version-54 or of the packaged layout.
C2_PathTakesPrecedence ==
    \A r \in Records :
        PathDef(r) =>
            /\ r.active = {"local"}
            /\ r.headers = LocalHeaders
            /\ HeaderSet(r.headers)
                  \cap (HeaderSet(V54Headers) \cup HeaderSet(PackagedHeaders)) = {}

C2_Witness ==
    \E r \in Records :
        /\ PathDef(r)
        /\ C54(r) = [defined |-> TRUE, body |-> <<"1">>]
        /\ r.headers # <<>>

\* C3: when neither COLLECTD_PATH nor COLLECTD_54 is defined, the selected
\* header set is exactly the packaged layout and holds no header of the
\* local or of the version-54 layout.
C3_DefaultIsPackaged ==
    \A r \in Records :
        (~PathDef(r) /\ ~C54(r).defined) =>
            /\ r.active = {"packaged"}
            /\ r.headers = PackagedHeaders
            /\ ~r.error
            /\ HeaderSet(r.headers)
                  \cap (HeaderSet(LocalHeaders) \cup HeaderSet(V54Headers)) = {}

C3_Witness ==
    \E r \in Records :
        ~PathDef(r) /\ ~C54(r).defined /\ Len(r.headers) = 3

\* C4: whenever COLLECTD_PATH is not defined and COLLECTD_54 is defined, with
\* whatever value, the selected header set is the version-54 layout and not
\* the packaged layout.
C4_Defined54SelectsV54 ==
    \A r \in Records :
        (~PathDef(r) /\ C54(r).defined) =>
            /\ r.headers = V54Headers
            /\ "packaged" \notin r.active

\* C5: in each flag configuration the selected header set has exactly one
\* include for each of oconfig.h, plugin.h and utils_cache.h, and no fourth
\* header.
C5_OneIncludePerFacility ==
    \A r \in Records :
        r.active # {} =>
            /\ \A f \in Facilities : CountOf(r.headers, f) = 1
            /\ Len(r.headers) = 3

\* C6: the branch selection has no error condition: for every state of the
\* two flags the conditionals are evaluated without a diagnostic and a
\* header set is selected.
C6_NoErrorCondition ==
    /\ diagnostics = 0
    /\ status # "aborted"
    /\ \A r \in Records : ~r.error /\ r.active # {}

\* C7: the selection is performed at most once per translation unit, so a
\* translation unit never holds include directives of two layouts.
C7_SelectedOncePerTU ==
    /\ Len(log) <= 1
    /\ Cardinality(LayoutsOf(tu)) <= 1

C9_DefinednessVersusValue ==
    \A r \in Records :
        /\ PathDef(r) =>
              r.active = {"local"} /\ ~r.evaluated /\ ~r.error
        /\ (~PathDef(r) /\ C54(r) = [defined |-> TRUE, body |-> <<"1">>]) =>
              r.active = {"v54"} /\ r.headers = V54Headers /\ r.evaluated
        /\ (~PathDef(r) /\ (~C54(r).defined \/ C54(r).body = <<"0">>)) =>
              r.active = {"packaged"} /\ r.headers = PackagedHeaders

C9_Witness ==
    /\ Len(log) = 2
    /\ log[1].before["COLLECTD_PATH"] = [defined |-> TRUE, body |-> <<"0">>]
    /\ log[1].before["COLLECTD_54"] = [defined |-> TRUE, body |-> <<>>]
    /\ log[1].active = {"local"}
    /\ ~PathDef(log[2])
    /\ C54(log[2]) = [defined |-> TRUE, body |-> <<"0">>]
    /\ log[2].active = {"packaged"}
====
